---- MODULE Spec2Model ----
(***************************************************************************)
(* Thumb War server (src/server.js): the room registry, the per-connection *)
(* handlers joinRoom / input / disconnect, and the 60 Hz game loop         *)
(* tickRoom, as one state machine.                                         *)
(*                                                                         *)
(* Numbers.  The source computes in IEEE doubles.  Here                    *)
(*   - a length is a fixed-point number of two parts, whole 1/1000 px      *)
(*     (PosScale) and a fraction of that in 1/10^9 (FracScale), that is, a *)
(*     decimal number of px with 12 places: the axis speed 3.2 is          *)
(*     (3200, 0) and the diagonal speed (1 / Math.hypot(1, 1)) * 3.2 =     *)
(*     2.262741699796952 is (2262, 741699797).  Sums and differences are   *)
(*     exact on these numbers; they follow the doubles to about 10^-11 px  *)
(*     over some hundred ticks;                                            *)
(*   - a pin timer is an integer number of dt*0.5 = 1/120 s, so dt is 2,   *)
(*     the decay dt*0.5 is 1 and winPinSeconds = 2.0 is 240.               *)
(* The doubles' rounding shows in one place only: a timer whose exact      *)
(* value is 2.0 is, as a double, just below or at/above 2.0 depending on   *)
(* the additions that produced it (120 additions of 1/60 from 0 give       *)
(* 1.9999999999999978).  The comparison pinTimer >= winPinSeconds is       *)
(* therefore a choice between both outcomes when the exact values are      *)
(* equal (parameter up of findWinner).                                     *)
(***************************************************************************)
EXTENDS Integers, Sequences, FiniteSets, TLC

\* ------------------------------------------------------------------ bounds
\* Connections (sockets) that ever connect, named 1, 2, ... in the order in
\* which they connect.
NumConns == 3
\* Spec, the sessions: joinRoom events, input events and ticks handled in one
\* run, with every rid and every input payload of the model.
MaxJoins == 4
MaxInputs == 1
MaxTicks == 1
\* SpecGame, one game played to its end: joinRoom and input events handled in
\* one run; ticks are not bounded.
GameConns == 2
GameJoins == 3
GameInputs == 2

\* ------------------------------------------------------- program constants
PosScale == 10 ^ 3
FracScale == 10 ^ 9
\* room.width, room.height, room.radius (createRoomIfNeeded)
width == 800 * PosScale
height == 500 * PosScale
radius == 30 * PosScale
\* room.radius * 1.4, the contact distance of tickRoom
contactDist == 42 * PosScale
\* dt = 1/60 s in timer units of 1/120 s; dt * 0.5
dt == 2
halfDt == 1
\* room.winPinSeconds = 2.0 s in timer units
winPinSeconds == 240
\* speed = 3.2 of the input handler; 3.2 / hypot(1, 1) for a diagonal
speed == 3200
diagSpeed == [whole |-> 2262, frac |-> 741699797]
\* roomId.length > 12 is invalid
MaxRoomIdLen == 12

\* --------------------------------------------------------------- lengths
\* The number whole / PosScale + frac / (PosScale * FracScale) px, with
\* 0 <= frac < FracScale: the doubles p.x, p.y, p.vx, p.vy.
fx(w) == [whole |-> w, frac |-> 0]

\* a + b
plus(a, b) ==
    LET f == a.frac + b.frac
    IN [whole |-> a.whole + b.whole + (f \div FracScale), frac |-> f % FracScale]

\* -a
neg(a) ==
    IF a.frac = 0 THEN [whole |-> 0 - a.whole, frac |-> 0]
    ELSE [whole |-> 0 - a.whole - 1, frac |-> FracScale - a.frac]

\* a - b
minus(a, b) == plus(a, neg(b))

\* a < b
less(a, b) == a.whole < b.whole \/ (a.whole = b.whole /\ a.frac < b.frac)

\* Math.max, Math.min and the absolute value on lengths
fmax(a, b) == IF less(a, b) THEN b ELSE a
fmin(a, b) == IF less(b, a) THEN b ELSE a
fabs(a) == IF a.whole < 0 THEN neg(a) ELSE a

\* --------------------------------------------------------------- strings
\* A string is a sequence of characters; " " is the only whitespace used.
Rep(ch, n) == [i \in 1..n |-> ch]

RECURSIVE trimStart(_)
trimStart(s) ==
    IF s # <<>> /\ Head(s) = " " THEN trimStart(Tail(s)) ELSE s

RECURSIVE trimEnd(_)
trimEnd(s) ==
    IF s # <<>> /\ s[Len(s)] = " " THEN trimEnd(SubSeq(s, 1, Len(s) - 1)) ELSE s

\* String.prototype.trim
trim(s) == trimEnd(trimStart(s))

upperChar(ch) ==
    CASE ch = "a" -> "A"
      [] ch = "b" -> "B"
      [] OTHER -> ch

\* String.prototype.toUpperCase
toUpperCase(s) == [i \in 1..Len(s) |-> upperChar(s[i])]

\* The values a client sends as rid: null (no string at all) or a string.
NullRid == [isString |-> FALSE, chars |-> <<>>]
Str(s) == [isString |-> TRUE, chars |-> s]

\* String(rid || '')
ridToString(rid) == IF rid.isString THEN rid.chars ELSE <<>>

\* Mutant of normalizeRid: the trim is forgotten.
normalizeRid_noTrim(rid) == toUpperCase(ridToString(rid))

\* String(rid || '').trim().toUpperCase()
normalizeRid(rid) == toUpperCase(trim(ridToString(rid)))

\* The rids the clients of the model send: nothing, a blank string, a padded
\* lower-case "a", and codes that normalize to length 12 (the longest valid
\* one, padded to raw length 14) and to length 13 (the shortest invalid one).
Rids ==
    { NullRid,
      Str(<<" ", " ">>),
      Str(<<" ", "a", " ">>),
      Str(<<" ">> \o Rep("b", MaxRoomIdLen) \o <<" ">>),
      Str(Rep("a", MaxRoomIdLen + 1)) }

\* The closure variable roomId before the first joinRoom (null): a value
\* that is no string of characters.
Null == <<"null">>

\* !roomId : null and '' are falsy
falsy(id) == id = Null \/ id = <<>>

\* ----------------------------------------------------------------- state
VARIABLES
    rooms,      \* the Map rooms: room id -> room; its DOMAIN is the key set
    roomId,     \* per connection: the closure variable roomId of its handlers
    conn,       \* per connection: "new" (not yet connected), "open", "closed"
    timers,     \* the active setInterval timers: timer id -> the connection
                \* whose closure variable roomId the callback reads
    emitted,    \* what the last handler sent: acks and broadcasts, in order
    joins,      \* joinRoom events handled so far
    inputs,     \* input events handled so far
    ticks       \* ticks handled so far, counted up to MaxTicks

vars == <<rooms, roomId, conn, timers, emitted, joins, inputs, ticks>>

Conns == 1..NumConns

Roles == <<"P1", "P2", "P3">>
NoRole == "none"
\* room.winner === null
NoWinner == "null"
\* room.interval undefined (never set) or null (cleared): both falsy
NoInterval == 0

\* Object.keys(room.players) in insertion order, as indexes of the sequence
playerIndex(room, sid) ==
    LET hit == {i \in 1..Len(room.players) : room.players[i].id = sid}
    IN IF hit = {} THEN 0 ELSE CHOOSE i \in hit : TRUE

playerCount(room) == Len(room.players)

\* ------------------------------------------------------------- registry
newRoom == [players |-> <<>>, winner |-> NoWinner, interval |-> NoInterval]

\* createRoomIfNeeded(roomId): the registry afterwards
createRoomIfNeeded(rs, id) ==
    IF id \in DOMAIN rs THEN rs
    ELSE [r \in DOMAIN rs \cup {id} |-> IF r = id THEN newRoom ELSE rs[r]]

\* rooms.delete(roomId)
deleteRoom(rs, id) == [r \in DOMAIN rs \ {id} |-> rs[r]]

setRoom(rs, id, room) == [rs EXCEPT ![id] = room]

\* Mutant of assignRole: the seat is chosen by the number of players.
assignRole_byCount(room) ==
    IF Len(room.players) < 3 THEN Roles[Len(room.players) + 1] ELSE NoRole

\* Mutant of assignRole: P3 is handed out without looking whether it is held.
assignRole_noFull(room) ==
    LET roles == {room.players[i].role : i \in 1..Len(room.players)}
    IN IF "P1" \notin roles THEN "P1"
       ELSE IF "P2" \notin roles THEN "P2"
       ELSE "P3"

\* assignRole(room): the first of P1, P2, P3 that no player holds, or none
assignRole(room) ==
    LET roles == {room.players[i].role : i \in 1..Len(room.players)}
    IN IF "P1" \notin roles THEN "P1"
       ELSE IF "P2" \notin roles THEN "P2"
       ELSE IF "P3" \notin roles THEN "P3"
       ELSE NoRole

\* spawnPositions[role].x : width * 0.2, 0.5, 0.8
spawnX(role) ==
    CASE role = "P1" -> fx((width * 2) \div 10)
      [] role = "P2" -> fx((width * 5) \div 10)
      [] role = "P3" -> fx((width * 8) \div 10)

\* spawnPositions[role].y : height * 0.5
spawnY(role) == fx((height * 5) \div 10)

\* the player object of joinRoom (thumbFile, an opaque echo, is left out)
newPlayer(sid, role) ==
    [id |-> sid, role |-> role, x |-> spawnX(role), y |-> spawnY(role),
     vx |-> fx(0), vy |-> fx(0), pressing |-> FALSE, pinTimer |-> 0, z |-> 0]

\* room.players[socket.id] = {...}: an existing key keeps its place in the
\* iteration order, a new key goes last
putPlayer(room, p) ==
    LET i == playerIndex(room, p.id)
    IN IF i = 0 THEN [room EXCEPT !.players = Append(@, p)]
       ELSE [room EXCEPT !.players[i] = p]

\* delete room.players[socket.id]
deletePlayer(room, sid) ==
    [room EXCEPT !.players = SelectSeq(@, LAMBDA p : p.id # sid)]

\* setInterval: a timer id not in use
newTimer == CHOOSE t \in 1..(Cardinality(DOMAIN timers) + 1) : t \notin DOMAIN timers

\* setInterval(() => tickRoom(roomId), 1000 / 60), called in a handler of
\* connection c: the callback reads c's roomId when it runs
setInterval(ts, t, c) == [u \in DOMAIN ts \cup {t} |-> IF u = t THEN c ELSE ts[u]]

\* the roomId the callback of timer t passes to tickRoom
tickedRoom(t) == roomId[timers[t]]

\* clearInterval(room.interval): no effect on a value that is no active timer
clearInterval(ts, t) == [u \in DOMAIN ts \ {t} |-> ts[u]]

\* ------------------------------------------------------------- messages
ackFail(c, err) == [type |-> "ack", to |-> c, ok |-> FALSE, error |-> err, role |-> NoRole]
ackOk(c, role) == [type |-> "ack", to |-> c, ok |-> TRUE, error |-> "", role |-> role]
lobbyMsg(id, n) == [type |-> "lobby", room |-> id, playerCount |-> n]
endMsg(id, role) == [type |-> "end", room |-> id, winner |-> role]
stateMsg(id, room) ==
    [type |-> "state", room |-> id, winner |-> room.winner,
     players |-> [i \in 1..Len(room.players) |->
                    [role |-> room.players[i].role,
                     x |-> room.players[i].x, y |-> room.players[i].y,
                     pressing |-> room.players[i].pressing,
                     pinTimer |-> room.players[i].pinTimer,
                     z |-> room.players[i].z]]]

\* ----------------------------------------------------------------- Init
Init ==
    /\ rooms = <<>>
    /\ roomId = [c \in Conns |-> Null]
    /\ conn = [c \in Conns |-> "new"]
    /\ timers = <<>>
    /\ emitted = <<>>
    /\ joins = 0
    /\ inputs = 0
    /\ ticks = 0

\* io.on('connection'): the next socket connects; its roomId is null
Connection(c) ==
    /\ conn[c] = "new"
    /\ \A d \in Conns : d < c => conn[d] # "new"
    /\ conn' = [conn EXCEPT ![c] = "open"]
    /\ roomId' = [roomId EXCEPT ![c] = Null]
    /\ emitted' = <<>>
    /\ UNCHANGED <<rooms, timers, joins, inputs, ticks>>

\* socket.on('joinRoom', (rid, data, ack) => ...)
JoinRoom(c, rid) ==
    /\ conn[c] = "open"
    /\ joins' = joins + 1
    /\ LET id == normalizeRid(rid)
       IN /\ roomId' = [roomId EXCEPT ![c] = id]
          /\ IF falsy(id) \/ Len(id) > MaxRoomIdLen
             THEN /\ emitted' = <<ackFail(c, "Invalid room id")>>
                  /\ UNCHANGED <<rooms, timers>>
             ELSE LET rs == createRoomIfNeeded(rooms, id)
                      role == assignRole(rs[id])
                  IN IF role = NoRole
                     THEN /\ emitted' = <<ackFail(c, "Room is full")>>
                          /\ rooms' = rs
                          /\ UNCHANGED timers
                     ELSE LET joined == putPlayer(rs[id], newPlayer(c, role))
                              n == playerCount(joined)
                              start == n >= 2 /\ joined.interval = NoInterval
                              t == newTimer
                          IN /\ emitted' = <<ackOk(c, role), lobbyMsg(id, n)>>
                             /\ rooms' = setRoom(rs, id,
                                   IF start
                                   THEN [joined EXCEPT !.winner = NoWinner,
                                                       !.interval = t]
                                   ELSE joined)
                             /\ timers' = IF start THEN setInterval(timers, t, c)
                                          ELSE timers
    /\ UNCHANGED <<conn, inputs, ticks>>

\* ---------------------------------------------------------------- input
\* The input payloads the clients of the model send.
inputData(u, d, l, r, p) ==
    [up |-> u, down |-> d, left |-> l, right |-> r, pressing |-> p]

Inputs ==
    { inputData(FALSE, FALSE, FALSE, FALSE, FALSE),
      inputData(FALSE, FALSE, FALSE, FALSE, TRUE),
      inputData(FALSE, FALSE, FALSE, TRUE, FALSE),
      inputData(FALSE, TRUE, TRUE, FALSE, TRUE) }

bit(b) == IF b THEN 1 ELSE 0

\* (d / (Math.hypot(d, other) || 1)) * speed for d, other in {-1, 0, 1}
velocity(d, other) ==
    IF d = 0 THEN fx(0)
    ELSE IF other = 0 THEN fx(d * speed)
    ELSE IF d > 0 THEN diagSpeed
    ELSE neg(diagSpeed)

\* the input handler without "make sure others are below"
applyInput_noClear(room, sid, data) ==
    LET i == playerIndex(room, sid)
        dx == bit(data.right) - bit(data.left)
        dy == bit(data.down) - bit(data.up)
        me == [room.players[i] EXCEPT
                 !.vx = velocity(dx, dy),
                 !.vy = velocity(dy, dx),
                 !.pressing = data.pressing,
                 !.z = IF data.pressing THEN 1 ELSE 0]
    IN [room EXCEPT !.players = [@ EXCEPT ![i] = me]]

\* the input handler without "else me.z = 0"
applyInput_keepsTop(room, sid, data) ==
    LET i == playerIndex(room, sid)
        dx == bit(data.right) - bit(data.left)
        dy == bit(data.down) - bit(data.up)
        me == [room.players[i] EXCEPT
                 !.vx = velocity(dx, dy),
                 !.vy = velocity(dy, dx),
                 !.pressing = data.pressing,
                 !.z = IF data.pressing THEN 1 ELSE @]
    IN [room EXCEPT !.players =
          [k \in 1..Len(room.players) |->
             IF k = i THEN me
             ELSE IF data.pressing THEN [room.players[k] EXCEPT !.z = 0]
             ELSE room.players[k]]]

\* the input handler putting everybody below on a release
applyInput_clearsAll(room, sid, data) ==
    LET i == playerIndex(room, sid)
        dx == bit(data.right) - bit(data.left)
        dy == bit(data.down) - bit(data.up)
        me == [room.players[i] EXCEPT
                 !.vx = velocity(dx, dy),
                 !.vy = velocity(dy, dx),
                 !.pressing = data.pressing,
                 !.z = IF data.pressing THEN 1 ELSE 0]
    IN [room EXCEPT !.players =
          [k \in 1..Len(room.players) |->
             IF k = i THEN me ELSE [room.players[k] EXCEPT !.z = 0]]]

\* the body of the input handler after its guards: me and the room afterwards
applyInput(room, sid, data) ==
    LET i == playerIndex(room, sid)
        dx == bit(data.right) - bit(data.left)
        dy == bit(data.down) - bit(data.up)
        me == [room.players[i] EXCEPT
                 !.vx = velocity(dx, dy),
                 !.vy = velocity(dy, dx),
                 !.pressing = data.pressing,
                 !.z = IF data.pressing THEN 1 ELSE 0]
    IN [room EXCEPT !.players =
          [k \in 1..Len(room.players) |->
             IF k = i THEN me
             ELSE IF data.pressing THEN [room.players[k] EXCEPT !.z = 0]
             ELSE room.players[k]]]

\* the input handler without the guard on room.winner
Input_afterWin(c, data) ==
    /\ conn[c] = "open"
    /\ inputs' = inputs + 1
    /\ emitted' = <<>>
    /\ IF falsy(roomId[c]) THEN UNCHANGED rooms
       ELSE IF roomId[c] \notin DOMAIN rooms THEN UNCHANGED rooms
       ELSE IF playerIndex(rooms[roomId[c]], c) = 0
            THEN UNCHANGED rooms
       ELSE rooms' = setRoom(rooms, roomId[c], applyInput(rooms[roomId[c]], c, data))
    /\ UNCHANGED <<roomId, conn, timers, joins, ticks>>

\* socket.on('input', (data) => ...)
Input(c, data) ==
    /\ conn[c] = "open"
    /\ inputs' = inputs + 1
    /\ emitted' = <<>>
    /\ IF falsy(roomId[c]) THEN UNCHANGED rooms
       ELSE IF roomId[c] \notin DOMAIN rooms THEN UNCHANGED rooms
       ELSE IF \/ playerIndex(rooms[roomId[c]], c) = 0
               \/ rooms[roomId[c]].winner # NoWinner
            THEN UNCHANGED rooms
       ELSE rooms' = setRoom(rooms, roomId[c], applyInput(rooms[roomId[c]], c, data))
    /\ UNCHANGED <<roomId, conn, timers, joins, ticks>>

\* ----------------------------------------------------------- disconnect
\* Mutant of leaveRoom: the loop is not stopped when too few players remain.
leaveRoom_keepsLoop(room, sid) == deletePlayer(room, sid)

\* the room after the disconnect handler's delete and loop stop
leaveRoom(room, sid) ==
    LET left == deletePlayer(room, sid)
    IN IF playerCount(left) < 2 /\ left.interval # NoInterval
       THEN [left EXCEPT !.interval = NoInterval, !.winner = NoWinner]
       ELSE left

\* socket.on('disconnect', () => ...)
Disconnect(c) ==
    /\ conn[c] = "open"
    /\ conn' = [conn EXCEPT ![c] = "closed"]
    /\ IF falsy(roomId[c]) \/ roomId[c] \notin DOMAIN rooms
       THEN /\ emitted' = <<>>
            /\ UNCHANGED <<rooms, timers>>
       ELSE LET id == roomId[c]
                room == rooms[id]
                after == leaveRoom(room, c)
                n == playerCount(after)
            IN /\ emitted' = <<lobbyMsg(id, n)>>
               /\ timers' = IF n < 2 /\ room.interval # NoInterval
                            THEN clearInterval(timers, room.interval)
                            ELSE timers
               /\ rooms' = IF n = 0 THEN deleteRoom(rooms, id)
                           ELSE setRoom(rooms, id, after)
    /\ UNCHANGED <<roomId, joins, inputs, ticks>>

\* ------------------------------------------------------------ game loop
max(a, b) == IF a >= b THEN a ELSE b

\* Math.max(room.radius, Math.min(bound - room.radius, v))
\* clamp without its upper bound
clamp_noUpper(v, bound) == fmax(fx(radius), v)

clamp(v, bound) == fmax(fx(radius), fmin(fx(bound - radius), v))

\* Move & clamp, one player
move(p) ==
    [p EXCEPT !.x = clamp(plus(p.x, p.vx), width),
              !.y = clamp(plus(p.y, p.vy), height)]

\* Squares are compared in 1/CrossScale of a squared 1/PosScale px.
CrossScale == 10 ^ 4

\* d * d - d.whole * d.whole = 2 * d.whole * f + f * f for the fraction
\* f = d.frac / FracScale of a length 0 <= d < contactDist, in 1/CrossScale,
\* rounded down (by less than 4/CrossScale); the fraction is taken in three
\* parts so that no product passes 2^31
cross(d) ==
    LET hi == d.frac \div 10 ^ 5
        mid == (d.frac % 10 ^ 5) \div 10 ^ 2
        lo == d.frac % 10 ^ 2
    IN 2 * d.whole * hi
       + (2 * d.whole * mid + (2 * d.whole * lo) \div 10 ^ 2) \div 10 ^ 3
       + (hi * hi) \div 10 ^ 4

\* Math.hypot(a.x - b.x, a.y - b.y) < room.radius * 1.4, as
\* dx * dx + dy * dy < contactDist * contactDist: the whole parts decide
\* unless they leave less than the cross terms can fill (4 * contactDist)
inContact(a, b) ==
    LET dx == fabs(minus(a.x, b.x))
        dy == fabs(minus(a.y, b.y))
    IN /\ dx.whole < contactDist
       /\ dy.whole < contactDist
       /\ LET left == contactDist * contactDist
                         - dy.whole * dy.whole - dx.whole * dx.whole
          IN IF left <= 0 THEN FALSE
             ELSE IF left >= 4 * contactDist + 2 THEN TRUE
             ELSE cross(dx) + cross(dy) < left * CrossScale

\* the pin rule with a decay of dt instead of dt * 0.5
pinned_fullDecay(a, b, contact) ==
    IF contact /\ a.z > b.z /\ a.pressing
    THEN a.pinTimer + dt
    ELSE max(0, a.pinTimer - dt)

\* a.pinTimer after the pair (a, b): the body of the pin loop for one side
pinned(a, b, contact) ==
    IF contact /\ a.z > b.z /\ a.pressing
    THEN a.pinTimer + dt
    ELSE max(0, a.pinTimer - halfDt)

\* one iteration of the pin loop, on playersArr[i] and playersArr[j]
pinPair(ps, i, j) ==
    LET contact == inContact(ps[i], ps[j])
    IN [ps EXCEPT ![i].pinTimer = pinned(ps[i], ps[j], contact),
                  ![j].pinTimer = pinned(ps[j], ps[i], contact)]

\* the pin loop without its outer loop: only the pairs of playersArr[0]
RECURSIVE pinLoop_firstRow(_, _, _)
pinLoop_firstRow(ps, i, j) ==
    IF i > 1 THEN ps
    ELSE IF j > Len(ps) THEN pinLoop_firstRow(ps, i + 1, i + 2)
    ELSE pinLoop_firstRow(pinPair(ps, i, j), i, j + 1)

\* for (i ...) for (j = i + 1 ...) : the pairs in loop order, each reading
\* what the previous ones wrote
RECURSIVE pinLoop(_, _, _)
pinLoop(ps, i, j) ==
    IF i > Len(ps) THEN ps
    ELSE IF j > Len(ps) THEN pinLoop(ps, i + 1, i + 2)
    ELSE pinLoop(pinPair(ps, i, j), i, j + 1)

\* p.pinTimer >= room.winPinSeconds on doubles: decided by the exact values
\* unless they are equal, and then by the rounding (isUp)
reached(p, isUp) ==
    p.pinTimer > winPinSeconds \/ (p.pinTimer = winPinSeconds /\ isUp)

\* playersArr.find(p => p.pinTimer >= room.winPinSeconds): its index, or 0
findWinner(ps, up) ==
    LET hit == {i \in 1..Len(ps) : reached(ps[i], i \in up)}
    IN IF hit = {} THEN 0 ELSE CHOOSE i \in hit : \A k \in hit : i <= k

\* the players after "Move & clamp" and "Pin logic"
stepPlayers(ps) == pinLoop([i \in 1..Len(ps) |-> move(ps[i])], 1, 2)

\* tickRoom(roomId), called by timer t
TickRoom(t) ==
    /\ t \in DOMAIN timers
    /\ LET id == tickedRoom(t)
       IN IF id \notin DOMAIN rooms
          THEN /\ emitted' = <<>>
               /\ UNCHANGED <<rooms, timers>>
          ELSE IF Len(rooms[id].players) < 2
          THEN /\ emitted' = <<>>
               /\ UNCHANGED <<rooms, timers>>
          ELSE LET room == rooms[id]
                   ps == stepPlayers(room.players)
                   stepped == [room EXCEPT !.players = ps]
                   atLimit == {i \in 1..Len(ps) : ps[i].pinTimer = winPinSeconds}
               IN \E up \in SUBSET atLimit :
                    LET w == findWinner(ps, up)
                    IN IF w # 0 /\ room.winner = NoWinner
                       THEN LET won == [stepped EXCEPT !.winner = ps[w].role,
                                                       !.interval = NoInterval]
                            IN /\ rooms' = setRoom(rooms, id, won)
                               /\ timers' = clearInterval(timers, room.interval)
                               /\ emitted' = <<endMsg(id, ps[w].role),
                                               stateMsg(id, won)>>
                       ELSE /\ rooms' = setRoom(rooms, id, stepped)
                            /\ emitted' = <<stateMsg(id, stepped)>>
                            /\ UNCHANGED timers
    /\ ticks' = IF ticks < MaxTicks THEN ticks + 1 ELSE MaxTicks
    /\ UNCHANGED <<roomId, conn, joins, inputs>>

\* ------------------------------------------------------- specifications
\* The sessions: any rid and any input payload of the model, a few ticks.
Next ==
    \/ \E c \in Conns : Connection(c)
    \/ \E c \in Conns, rid \in Rids : joins < MaxJoins /\ JoinRoom(c, rid)
    \/ \E c \in Conns, data \in Inputs : inputs < MaxInputs /\ Input(c, data)
    \/ \E c \in Conns : Disconnect(c)
    \/ \E t \in DOMAIN timers : ticks < MaxTicks /\ TickRoom(t)

Spec == Init /\ [][Next]_vars

\* One game played to its end in room "A": the clients walk right, or stop
\* and press; the loop ticks as long as it is scheduled.
GameRids == {Str(<<" ", "a", " ">>)}

GamePayloads ==
    { inputData(FALSE, FALSE, FALSE, TRUE, FALSE),
      inputData(FALSE, FALSE, FALSE, FALSE, TRUE) }

NextGame ==
    \/ \E c \in 1..GameConns : Connection(c)
    \/ \E c \in 1..GameConns, rid \in GameRids : joins < GameJoins /\ JoinRoom(c, rid)
    \/ \E c \in 1..GameConns, data \in GamePayloads : inputs < GameInputs /\ Input(c, data)
    \/ \E c \in 1..GameConns : Disconnect(c)
    \/ \E t \in DOMAIN timers : TickRoom(t)

SpecGame == Init /\ [][NextGame]_vars

\* One tick of a running room "A" of 2 or 3 players.  Each player of the
\* initial states has walked from its spawn position, under one payload or
\* two for a number of ticks each (so its position is one the loop
\* produces), has then sent a last payload, and holds a timer of TickTimers;
\* at most one player is on top (z = 1), and that one is pressing, as the
\* input handler leaves it.
idle == inputData(FALSE, FALSE, FALSE, FALSE, FALSE)
press == inputData(FALSE, FALSE, FALSE, FALSE, TRUE)
goRight == inputData(FALSE, FALSE, FALSE, TRUE, FALSE)
goLeft == inputData(FALSE, FALSE, TRUE, FALSE, FALSE)
goDownRight == inputData(FALSE, TRUE, FALSE, TRUE, FALSE)
goDownLeft == inputData(FALSE, TRUE, TRUE, FALSE, FALSE)

\* me.vx, me.vy and me.pressing as the input handler sets them
steer(p, data) ==
    [p EXCEPT !.vx = velocity(bit(data.right) - bit(data.left),
                              bit(data.down) - bit(data.up)),
              !.vy = velocity(bit(data.down) - bit(data.up),
                              bit(data.right) - bit(data.left)),
              !.pressing = data.pressing]

\* k times "Move & clamp"
RECURSIVE walked(_, _)
walked(p, k) ==
    IF k = 0 THEN p
    ELSE IF k = 1 THEN move(p)
    ELSE LET q == walked(p, k \div 2)
         IN IF q.x = p.x /\ q.y = p.y THEN p ELSE walked(q, k - (k \div 2))

\* p after the legs of w, each a payload sent and the ticks that followed it
RECURSIVE routed(_, _)
routed(p, w) ==
    IF w = <<>> THEN p
    ELSE routed(walked(steer(p, w[1][1]), w[1][2]), Tail(w))

\* P1 down and right for 67 ticks, then left for 13, to
\* (270.003693886399, 401.603693886399): 41.998968283753 from P2 after
\* nearP2
nearHit == << <<goDownRight, 67>>, <<goLeft, 13>> >>

\* P1 down and left for 67 ticks (along the left wall from the 58th on), then
\* right for 75, to (270, 401.603693886399): 42.000451219477 from P2 after
\* nearP2
nearMiss == << <<goDownLeft, 67>>, <<goRight, 75>> >>

\* P2 down and left for 50 ticks, to (286.86291501015, 363.13708498985)
nearP2 == << <<goDownLeft, 50>> >>

\* where the players of the initial states have walked: P1 stays, or goes
\* right to 358.4 (41.6 from P2's spawn) or to 400; P2 stays, or goes right
\* to 768 (one step from the wall at 770); P3 stays, or goes left to 400, or
\* down and right to (768.976, 378.976).
TickWalks(role) ==
    CASE role = "P1" -> {<<>>, << <<goRight, 62>> >>, << <<goRight, 75>> >>}
      [] role = "P2" -> {<<>>, << <<goRight, 115>> >>}
      [] role = "P3" -> {<<>>, << <<goLeft, 75>> >>, << <<goDownRight, 57>> >>}

\* and, in two-player rooms only: P1 and P2 on either side of the contact
\* distance
NearWalks(role) ==
    CASE role = "P1" -> {nearHit, nearMiss}
      [] role = "P2" -> {nearP2}

TickPayloads == {idle, press, goRight, goDownRight}

TickTimers == {0, 1, winPinSeconds - 1}

\* the player of connection sid after a walk of ws, a last payload, and with
\* a timer and a z
walkers(sid, ws) ==
    { [steer(routed(newPlayer(sid, Roles[sid]), w), cur)
         EXCEPT !.pinTimer = t, !.z = z] :
        w \in ws,
        cur \in TickPayloads,
        t \in TickTimers,
        z \in {0, 1} }

TickPlayers(sid) == walkers(sid, TickWalks(Roles[sid]))

NearPlayers(sid) == walkers(sid, NearWalks(Roles[sid]))

onTop(ps) == {i \in 1..Len(ps) : ps[i].z = 1}

TickRooms ==
    { ps \in { <<a, b>> : a \in TickPlayers(1), b \in TickPlayers(2) }
             \cup { <<a, b, c>> : a \in TickPlayers(1), b \in TickPlayers(2),
                                  c \in TickPlayers(3) }
             \cup { <<a, b>> : a \in NearPlayers(1), b \in NearPlayers(2) } :
        /\ Cardinality(onTop(ps)) <= 1
        /\ \A i \in onTop(ps) : ps[i].pressing }

InitTick ==
    /\ \E ps \in TickRooms :
         /\ rooms = (<<"A">> :> [players |-> ps, winner |-> NoWinner, interval |-> 1])
         /\ roomId = [c \in Conns |-> IF c <= Len(ps) THEN <<"A">> ELSE Null]
         /\ conn = [c \in Conns |-> IF c <= Len(ps) THEN "open" ELSE "new"]
         /\ joins = Len(ps)
    /\ timers = (1 :> 2)
    /\ emitted = <<>>
    /\ inputs = 0
    /\ ticks = 0

NextTick == \E t \in DOMAIN timers : ticks < MaxTicks /\ TickRoom(t)

SpecTick == InitTick /\ [][NextTick]_vars

\* The game of SpecGame taken up again late in its course, with a third
\* connection at hand.  In room "A" P1 has walked right for 62 ticks, has
\* stopped and pressed next to P2, who never moved, and has held P2 down
\* until its timer stood at winPinSeconds without the comparison seeing it
\* there (the rounding of the 120 additions of dt); the game is taken up
\* either at this point (the loop runs, one step before the win) or one tick
\* later (P1 has won, the loop has stopped).
RematchJoins == 3
RematchInputs == 3

pinningPlayers ==
    << [steer(walked(steer(newPlayer(1, "P1"), goRight), 62), press)
          EXCEPT !.z = 1, !.pinTimer = winPinSeconds],
       newPlayer(2, "P2") >>

pinningRoom == [players |-> pinningPlayers, winner |-> NoWinner, interval |-> 1]

wonRoom ==
    [players |-> stepPlayers(pinningPlayers), winner |-> "P1",
     interval |-> NoInterval]

InitRematch ==
    /\ \/ /\ rooms = (<<"A">> :> pinningRoom)
          /\ timers = (1 :> 2)
          /\ emitted = <<stateMsg(<<"A">>, pinningRoom)>>
       \/ /\ rooms = (<<"A">> :> wonRoom)
          /\ timers = <<>>
          /\ emitted = <<endMsg(<<"A">>, "P1"), stateMsg(<<"A">>, wonRoom)>>
    /\ roomId = [c \in Conns |-> IF c <= 2 THEN <<"A">> ELSE Null]
    /\ conn = [c \in Conns |-> IF c <= 2 THEN "open" ELSE "new"]
    /\ joins = 2
    /\ inputs = 2
    /\ ticks = MaxTicks

RematchRids == GameRids \cup {Str(Rep("a", MaxRoomIdLen + 1))}

\* the clients press, or release everything
RematchPayloads == {press, idle}

NextRematch ==
    \/ \E c \in Conns : Connection(c)
    \/ \E c \in Conns, rid \in RematchRids : joins < RematchJoins /\ JoinRoom(c, rid)
    \/ \E c \in Conns, data \in RematchPayloads : inputs < RematchInputs /\ Input(c, data)
    \/ \E c \in Conns : Disconnect(c)
    \/ \E t \in DOMAIN timers : TickRoom(t)

SpecRematch == InitRematch /\ [][NextRematch]_vars

\* The pinning state of SpecRematch with a second room to join: the
\* connections join and leave rooms "A" and "B" while the loops tick, MaxTicks
\* ticks from here on.
LoopJoins == 5

LoopRids == {Str(<<" ", "a", " ">>), Str(<<" ">> \o Rep("b", MaxRoomIdLen) \o <<" ">>)}

InitLoops ==
    /\ rooms = (<<"A">> :> pinningRoom)
    /\ timers = (1 :> 2)
    /\ emitted = <<stateMsg(<<"A">>, pinningRoom)>>
    /\ roomId = [c \in Conns |-> IF c <= 2 THEN <<"A">> ELSE Null]
    /\ conn = [c \in Conns |-> IF c <= 2 THEN "open" ELSE "new"]
    /\ joins = 2
    /\ inputs = 2
    /\ ticks = 0

NextLoops ==
    \/ \E c \in Conns : Connection(c)
    \/ \E c \in Conns, rid \in LoopRids : joins < LoopJoins /\ JoinRoom(c, rid)
    \/ \E c \in Conns : Disconnect(c)
    \/ \E t \in DOMAIN timers : ticks < MaxTicks /\ TickRoom(t)

SpecLoops == InitLoops /\ [][NextLoops]_vars

\* ================================================================ claims
roomIds == DOMAIN rooms
running(room) == room.interval # NoInterval
rolesHeld(room) == {room.players[i].role : i \in 1..Len(room.players)}
isMember(c, id) == id \in DOMAIN rooms /\ playerIndex(rooms[id], c) # 0

\* C1: from a state in which a room has a recorded winner and at least 2
\* players, a step that leaves it with at least 2 players starts no tick loop
\* for it and emits no 'end' for it (the room stays ended until its membership
\* has dropped below 2).
C1_EndedStaysEnded ==
    [][\A id \in roomIds :
         ( /\ rooms[id].winner # NoWinner
           /\ playerCount(rooms[id]) >= 2
           /\ id \in DOMAIN rooms'
           /\ playerCount(rooms'[id]) >= 2 )
         => /\ ~running(rooms'[id])
            /\ \A i \in 1..Len(emitted') :
                 ~(emitted'[i].type = "end" /\ emitted'[i].room = id)]_vars

\* C2: the tick loop of a room is running (room.interval set) if and only if
\* the room has at least 2 players and no recorded winner.
C2_LoopIffPlayable ==
    \A id \in roomIds :
        running(rooms[id])
            <=> (playerCount(rooms[id]) >= 2 /\ rooms[id].winner = NoWinner)

\* C2 witness: an ended room: a winner is recorded, both players are still
\* there, and the loop is not running.
C2_Witness ==
    \E id \in roomIds :
        /\ rooms[id].winner # NoWinner
        /\ playerCount(rooms[id]) >= 2
        /\ ~running(rooms[id])
        /\ timers = <<>>

\* C3: a disconnect that leaves the room with fewer than 2 players leaves its
\* loop stopped and its winner unset.
C3_LeaveClearsWinner ==
    [][\A c \in Conns :
         ( /\ Disconnect(c)
           /\ roomId[c] \in DOMAIN rooms'
           /\ playerCount(rooms'[roomId[c]]) < 2 )
         => /\ ~running(rooms'[roomId[c]])
            /\ rooms'[roomId[c]].winner = NoWinner]_vars

\* C4: a joinRoom answered with an error changes neither the registry nor the
\* timers, and a connection that was a player of the room its roomId named
\* still has that roomId.
C4_RejectedJoinChangesNothing ==
    [][\A c \in Conns, rid \in Rids :
         ( /\ JoinRoom(c, rid)
           /\ emitted'[1].type = "ack"
           /\ ~emitted'[1].ok )
         => /\ rooms' = rooms
            /\ timers' = timers
            /\ (isMember(c, roomId[c]) => roomId'[c] = roomId[c])]_vars

\* the room code after trimming and upper-casing, as the claim words it
trimmedUpper(rid) == toUpperCase(trim(IF rid.isString THEN rid.chars ELSE <<>>))

\* C5: a joinRoom whose code is empty or longer than 12 characters after
\* trimming and upper-casing is answered with 'Invalid room id' alone and
\* changes no room; a code of length 1..12 is never answered with that error.
C5_InvalidRoomId ==
    [][\A c \in Conns, rid \in Rids :
         JoinRoom(c, rid) =>
           IF Len(trimmedUpper(rid)) = 0 \/ Len(trimmedUpper(rid)) > 12
           THEN /\ emitted' = <<ackFail(c, "Invalid room id")>>
                /\ rooms' = rooms
           ELSE \A i \in 1..Len(emitted') :
                  emitted'[i].type = "ack" => emitted'[i].error # "Invalid room id"]_vars

\* C5 witness: a 13-character code has just been rejected while a room exists.
C5_Witness ==
    /\ emitted # <<>>
    /\ emitted[1].type = "ack"
    /\ emitted[1].error = "Invalid room id"
    /\ \E c \in Conns : Len(roomId[c]) = 13 /\ emitted[1].to = c
    /\ roomIds # {}

\* the lowest seat of P1, P2, P3 not in the set held
lowestFree(held) ==
    Roles[CHOOSE k \in 1..3 : Roles[k] \notin held /\ \A m \in 1..(k - 1) : Roles[m] \in held]

heldBefore(id) == IF id \in roomIds THEN rolesHeld(rooms[id]) ELSE {}

\* C6: a joinRoom with a valid code is answered with the lowest seat of P1,
\* P2, P3 that no player of the room holds, and the joining connection's
\* player has that seat; when all three are held it is answered with 'Room is
\* full' and the room's players are unchanged.
C6_LowestFreeSeat ==
    [][\A c \in Conns, rid \in Rids :
         ( /\ JoinRoom(c, rid)
           /\ Len(normalizeRid(rid)) \in 1..MaxRoomIdLen )
         => LET id == normalizeRid(rid)
                held == heldBefore(id)
            IN IF held = {"P1", "P2", "P3"}
               THEN /\ emitted' = <<ackFail(c, "Room is full")>>
                    /\ rooms'[id].players = rooms[id].players
               ELSE /\ emitted'[1] = ackOk(c, lowestFree(held))
                    /\ rooms'[id].players[playerIndex(rooms'[id], c)].role
                         = lowestFree(held)]_vars

\* C6 witness: three connections hold P1, P2, P3 in join order and a further
\* joinRoom has just been answered with 'Room is full'.
C6_Witness ==
    /\ emitted # <<>>
    /\ emitted[1].type = "ack"
    /\ emitted[1].error = "Room is full"
    /\ \E id \in roomIds :
         /\ playerCount(rooms[id]) = 3
         /\ \A i \in 1..3 : rooms[id].players[i].role = Roles[i]
         /\ \A i \in 1..3 : rooms[id].players[i].id = i

\* C7: the roles of a room's players are pairwise distinct members of
\* {P1, P2, P3}, and a room has at most 3 players.
C7_RolesDistinct ==
    \A id \in roomIds :
        LET ps == rooms[id].players
        IN /\ Len(ps) <= 3
           /\ \A i \in 1..Len(ps) : ps[i].role \in {"P1", "P2", "P3"}
           /\ \A i, j \in 1..Len(ps) : i # j => ps[i].role # ps[j].role

\* C7 witness: a full room after four joinRoom events whose first player in
\* iteration order, connection 1, holds P2 and whose second holds P1.
C7_Witness ==
    /\ joins = 4
    /\ \E id \in roomIds :
         /\ playerCount(rooms[id]) = 3
         /\ rooms[id].players[1].id = 1
         /\ rooms[id].players[1].role = "P2"
         /\ rooms[id].players[2].role = "P1"

\* C8: no room holds a player record of a connection that has disconnected.
C8_NoPlayerAfterDisconnect ==
    \A c \in Conns : conn[c] = "closed" => \A id \in roomIds : ~isMember(c, id)

\* C9: the registry holds no room without players, and it is empty once no
\* connection is open.
C9_NoEmptyRoom ==
    /\ \A id \in roomIds : playerCount(rooms[id]) > 0
    /\ (\A c \in Conns : conn[c] # "open") => roomIds = {}

\* C10: every player's pinTimer is within 0 .. winPinSeconds.
C10_PinTimerBounded ==
    \A id \in roomIds : \A i \in 1..Len(rooms[id].players) :
        /\ rooms[id].players[i].pinTimer >= 0
        /\ rooms[id].players[i].pinTimer <= winPinSeconds
\* the players of the rooms
\* a coordinate moved by its velocity and brought back to [lo, hi]
boundedTo(v, lo, hi) ==
    IF less(fx(hi), v) THEN fx(hi) ELSE IF less(v, fx(lo)) THEN fx(lo) ELSE v

\* lo <= v <= hi
within(v, lo, hi) == ~less(v, fx(lo)) /\ ~less(fx(hi), v)

\* C12: every player's position is in the arena after every step
\* (radius <= x <= width - radius, radius <= y <= height - radius), and a tick
\* of a room with at least 2 players leaves each coordinate of each player at
\* its old value plus the velocity, or at the bound this sum would pass, each
\* axis by itself.
C12_PositionsClamped ==
    [][ /\ \A id \in DOMAIN rooms' : \A i \in 1..Len(rooms'[id].players) :
             LET p == rooms'[id].players[i]
             IN /\ within(p.x, radius, width - radius)
                /\ within(p.y, radius, height - radius)
        /\ \A t \in DOMAIN timers :
             ( /\ TickRoom(t)
               /\ tickedRoom(t) \in DOMAIN rooms
               /\ Len(rooms[tickedRoom(t)].players) >= 2 )
             => LET ps == rooms[tickedRoom(t)].players
                    qs == rooms'[tickedRoom(t)].players
                IN \A i \in 1..Len(ps) :
                     /\ qs[i].x = boundedTo(plus(ps[i].x, ps[i].vx),
                                            radius, width - radius)
                     /\ qs[i].y = boundedTo(plus(ps[i].y, ps[i].vy),
                                            radius, height - radius)
      ]_vars

\* C12 witness: after a tick, a player moving down and right stands exactly
\* on the right bound while its y, still inside, has moved on: 58 diagonal
\* steps from the spawn, 381.239018588226.
C12_Witness ==
    /\ ticks >= 1
    /\ \E id \in roomIds : \E i \in 1..Len(rooms[id].players) :
         LET p == rooms[id].players[i]
         IN /\ p.vx = diagSpeed /\ p.vy = diagSpeed
            /\ p.x = fx(width - radius)
            /\ p.y = [whole |-> 381239, frac |-> 18588226]
            /\ less(p.y, fx(height - radius))

\* dominant and acting
domAct(p) == p.z = 1 /\ p.pressing

\* the timer t after one application of the pin rule
pinOutcome(t, gains) == IF gains THEN t + dt ELSE max(0, t - halfDt)

\* C14: a tick of a room of exactly two players: if they are in contact after
\* the move and exactly one is dominant and acting, its timer grows by dt and
\* the other's falls by dt * 0.5, not below 0; if they are not in contact,
\* both timers fall by dt * 0.5, not below 0, whatever the flags.
C14_TwoPlayerTick ==
    [][\A t \in DOMAIN timers :
         ( /\ TickRoom(t)
           /\ tickedRoom(t) \in DOMAIN rooms
           /\ Len(rooms[tickedRoom(t)].players) = 2 )
         => LET ps == rooms[tickedRoom(t)].players
                qs == rooms'[tickedRoom(t)].players
                contact == inContact(qs[1], qs[2])
            IN /\ \A a \in 1..2 :
                    LET b == 3 - a
                    IN (contact /\ domAct(ps[a]) /\ ~domAct(ps[b]))
                       => /\ qs[a].pinTimer = ps[a].pinTimer + dt
                          /\ qs[b].pinTimer = max(0, ps[b].pinTimer - halfDt)
               /\ ~contact
                    => \A a \in 1..2 :
                         qs[a].pinTimer = max(0, ps[a].pinTimer - halfDt)
      ]_vars

\* C14 witness: after a tick of a two-player room, the players are in contact,
\* the dominant and acting one has gone from 1 to 1 + dt and the other from
\* winPinSeconds - 1 to winPinSeconds - 1 - dt * 0.5; they stand where nearHit
\* and nearP2 lead, 41.998968283753 px apart.
C14_Witness ==
    /\ ticks >= 1
    /\ \E id \in roomIds :
         /\ Len(rooms[id].players) = 2
         /\ \E a \in 1..2 :
              LET p == rooms[id].players[a]
                  q == rooms[id].players[3 - a]
              IN /\ inContact(p, q)
                 /\ p.x = [whole |-> 270003, frac |-> 693886399]
                 /\ p.y = [whole |-> 401603, frac |-> 693886399]
                 /\ q.x = [whole |-> 286862, frac |-> 915010150]
                 /\ q.y = [whole |-> 363137, frac |-> 84989850]
                 /\ domAct(p)
                 /\ p.pinTimer = 1 + dt
                 /\ q.pinTimer = winPinSeconds - 1 - halfDt

\* the other two players of a three-player room, in the order in which the
\* pin loop pairs them with player k
othersOf(k) == IF k = 1 THEN <<2, 3>> ELSE IF k = 2 THEN <<1, 3>> ELSE <<1, 2>>

\* C19: a tick of a room of three players applies the pin rule once per
\* unordered pair, in loop order, each application on the result of the one
\* before: the timer of a player is the outcome of its second pair applied to
\* the outcome of its first pair (a gain of dt when it is dominant and acting
\* and in contact with the other of the pair, else a fall of dt * 0.5 floored
\* at 0), so 2 * dt for a dominant player in contact with both others.
C19_ThreePlayerTick ==
    [][\A t \in DOMAIN timers :
         ( /\ TickRoom(t)
           /\ tickedRoom(t) \in DOMAIN rooms
           /\ Len(rooms[tickedRoom(t)].players) = 3 )
         => LET ps == rooms[tickedRoom(t)].players
                qs == rooms'[tickedRoom(t)].players
                gains(k, o) == inContact(qs[k], qs[o]) /\ domAct(ps[k])
            IN \A k \in 1..3 :
                 /\ qs[k].pinTimer =
                      pinOutcome(pinOutcome(ps[k].pinTimer, gains(k, othersOf(k)[1])),
                                 gains(k, othersOf(k)[2]))
                 /\ (gains(k, othersOf(k)[1]) /\ gains(k, othersOf(k)[2]))
                      => qs[k].pinTimer = ps[k].pinTimer + 2 * dt
      ]_vars

\* C19 witness: after a tick of a three-player room, the dominant and acting
\* player, in contact with both others, has gone from 1 to 1 + 2 * dt, and
\* another player, decayed twice, is at 0.
C19_Witness ==
    /\ ticks >= 1
    /\ \E id \in roomIds :
         /\ Len(rooms[id].players) = 3
         /\ \E k \in 1..3 :
              LET ps == rooms[id].players
              IN /\ domAct(ps[k])
                 /\ inContact(ps[k], ps[othersOf(k)[1]])
                 /\ inContact(ps[k], ps[othersOf(k)[2]])
                 /\ ps[k].pinTimer = 1 + 2 * dt
                 /\ ps[othersOf(k)[1]].pinTimer = 0

\* C11: in every room at most one player is on top (z = 1).
C11_OneOnTop ==
    \A id \in roomIds : Cardinality(onTop(rooms[id].players)) <= 1

\* C11 witness: a room of two pressing players of which one is on top and
\* the other, who pressed first, has been put below.
C11_Witness ==
    \E id \in roomIds :
        LET ps == rooms[id].players
        IN /\ Len(ps) = 2
           /\ \A i \in 1..2 : ps[i].pressing
           /\ Cardinality(onTop(ps)) = 1

\* every input payload of the specifications
Payloads == Inputs \cup GamePayloads \cup TickPayloads \cup RematchPayloads

\* the input handler passes its guards for connection c
accepted(c) ==
    /\ isMember(c, roomId[c])
    /\ rooms[roomId[c]].winner = NoWinner

\* C17: a tick of a running room that records a winner emits, as its last
\* message, a 'state' carrying the winner's role, and leaves the room's loop
\* stopped and the room ticked by no timer (so no 'state' follows it); a tick
\* of a running room that records no winner emits a 'state' whose winner is
\* unset.
C17_StateCarriesWinner ==
    [][\A t \in DOMAIN timers :
         ( /\ TickRoom(t)
           /\ tickedRoom(t) \in DOMAIN rooms
           /\ running(rooms[tickedRoom(t)])
           /\ playerCount(rooms[tickedRoom(t)]) >= 2 )
         => LET id == tickedRoom(t)
                last == emitted'[Len(emitted')]
            IN /\ Len(emitted') >= 1
               /\ last.type = "state" /\ last.room = id
               /\ \A i \in 1..(Len(emitted') - 1) : emitted'[i].type # "state"
               /\ IF rooms'[id].winner # rooms[id].winner
                  THEN /\ rooms'[id].winner \in rolesHeld(rooms[id])
                       /\ last.winner = rooms'[id].winner
                       /\ ~running(rooms'[id])
                       /\ \A u \in DOMAIN timers' : roomId'[timers'[u]] # id
                  ELSE last.winner = NoWinner
      ]_vars

\* C18: an input that passes the guards leaves the sender's pressing equal
\* to the payload's; a pressing one leaves the sender on top and everybody
\* else of the room below, a releasing one leaves the sender below and the
\* others' z as they were; it changes no position, no timer, no winner, no
\* loop and no membership.
C18_AcceptedInput ==
    [][\A c \in Conns, data \in Payloads :
         (Input(c, data) /\ accepted(c))
         => LET id == roomId[c]
                ps == rooms[id].players
                qs == rooms'[id].players
                i == playerIndex(rooms[id], c)
            IN /\ DOMAIN rooms' = DOMAIN rooms
               /\ \A r \in DOMAIN rooms \ {id} : rooms'[r] = rooms[r]
               /\ rooms'[id].winner = rooms[id].winner
               /\ rooms'[id].interval = rooms[id].interval
               /\ timers' = timers
               /\ Len(qs) = Len(ps)
               /\ \A k \in 1..Len(ps) :
                    /\ qs[k].id = ps[k].id /\ qs[k].role = ps[k].role
                    /\ qs[k].x = ps[k].x /\ qs[k].y = ps[k].y
                    /\ qs[k].pinTimer = ps[k].pinTimer
               /\ qs[i].pressing = data.pressing
               /\ qs[i].z = IF data.pressing THEN 1 ELSE 0
               /\ \A k \in 1..Len(ps) \ {i} :
                    qs[k].z = IF data.pressing THEN 0 ELSE ps[k].z
      ]_vars

\* C18 witness: after an input (nothing emitted) a player who is not pressing
\* has a velocity it has not moved with yet, while the other player of the
\* room is still on top.
C18_Witness ==
    /\ emitted = <<>>
    /\ \E id \in roomIds :
         LET ps == rooms[id].players
         IN /\ Len(ps) = 2
            /\ \E i \in 1..2 :
                 /\ ~ps[i].pressing /\ less(fx(0), ps[i].vx)
                 /\ ps[i].x = spawnX(ps[i].role)
                 /\ ps[3 - i].z = 1

\* the two states in which SpecRematch takes the game up are states of
\* SpecGame
PinningReached ==
    /\ rooms = (<<"A">> :> pinningRoom)
    /\ timers = (1 :> 2)
    /\ emitted = <<stateMsg(<<"A">>, pinningRoom)>>
    /\ roomId = [c \in Conns |-> IF c <= 2 THEN <<"A">> ELSE Null]
    /\ conn = [c \in Conns |-> IF c <= 2 THEN "open" ELSE "new"]
    /\ joins = 2 /\ inputs = 2 /\ ticks = MaxTicks

WonReached ==
    /\ rooms = (<<"A">> :> wonRoom)
    /\ timers = <<>>
    /\ emitted = <<endMsg(<<"A">>, "P1"), stateMsg(<<"A">>, wonRoom)>>
    /\ roomId = [c \in Conns |-> IF c <= 2 THEN <<"A">> ELSE Null]
    /\ conn = [c \in Conns |-> IF c <= 2 THEN "open" ELSE "new"]
    /\ joins = 2 /\ inputs = 2 /\ ticks = MaxTicks

\* C13: an input from a connection that is a player of no room, or whose
\* room id names no room of the registry, or whose room has a recorded
\* winner, changes nothing on the server and is answered by no message.
C13_IgnoredInput ==
    [][\A c \in Conns, data \in Payloads :
         ( /\ Input(c, data)
           /\ \/ \A id \in roomIds : ~isMember(c, id)
              \/ roomId[c] \notin DOMAIN rooms
              \/ rooms[roomId[c]].winner # NoWinner )
         => /\ rooms' = rooms
            /\ timers' = timers
            /\ roomId' = roomId
            /\ conn' = conn
            /\ emitted' = <<>>
      ]_vars

\* C13 witness: an input has been handled after the win (the third of the
\* game) in the ended room, whose two players are both still connected:
\* nothing was emitted and the room is as the winning tick left it.
C13_Witness ==
    /\ inputs = RematchInputs
    /\ emitted = <<>>
    /\ conn = [c \in Conns |-> IF c <= 2 THEN "open" ELSE "new"]
    /\ rooms = (<<"A">> :> wonRoom)

\* C15: a tick of a running room of two players of which one is dominant and
\* acting and in contact with the other raises that player's timer by dt,
\* and records a winner exactly when that timer reaches winPinSeconds: the
\* winner is then that player's role, 'end' is emitted with it and the loop
\* is stopped.
C15_PinnerWins ==
    [][\A t \in DOMAIN timers :
         ( /\ TickRoom(t)
           /\ tickedRoom(t) \in DOMAIN rooms
           /\ running(rooms[tickedRoom(t)])
           /\ Len(rooms[tickedRoom(t)].players) = 2 )
         => LET id == tickedRoom(t)
                ps == rooms[id].players
                qs == rooms'[id].players
            IN \A d \in 1..2 :
                 ( /\ domAct(ps[d]) /\ ~domAct(ps[3 - d])
                   /\ inContact(qs[d], qs[3 - d]) )
                 => /\ qs[d].pinTimer = ps[d].pinTimer + dt
                    /\ qs[d].pinTimer < winPinSeconds
                         => rooms'[id].winner = NoWinner
                    /\ qs[d].pinTimer > winPinSeconds
                         => rooms'[id].winner = ps[d].role
                    /\ rooms'[id].winner # NoWinner
                         => /\ rooms'[id].winner = ps[d].role
                            /\ emitted'[1] = endMsg(id, ps[d].role)
                            /\ ~running(rooms'[id])
                            /\ t \notin DOMAIN timers'
      ]_vars

\* C16: a join that brings a room without winner from one player back to
\* two starts its loop with the winner unset, and the first tick of the new
\* game records no winner, whatever timer the player who stayed has kept.
C16_FreshRestart ==
    [][\A c \in Conns, rid \in RematchRids :
         LET id == normalizeRid(rid)
         IN ( /\ JoinRoom(c, rid)
              /\ id \in DOMAIN rooms
              /\ playerCount(rooms[id]) = 1
              /\ rooms[id].winner = NoWinner
              /\ playerCount(rooms'[id]) = 2 )
            => /\ running(rooms'[id])
               /\ rooms'[id].winner = NoWinner
               /\ findWinner(stepPlayers(rooms'[id].players), {}) = 0
      ]_vars

\* C20: no room is ticked by more than one active timer.
C20_OneLoopPerRoom ==
    \A id \in roomIds :
        Cardinality({t \in DOMAIN timers : tickedRoom(t) = id}) <= 1


\* C21: every player on top (z = 1) is pressing; so, for two players a and b
\* of a room, the pin condition a.z > b.z /\ a.pressing holds exactly when a
\* is on top.
C21_TopIsPressing ==
    \A id \in roomIds :
        LET ps == rooms[id].players
        IN /\ \A i \in 1..Len(ps) : ps[i].z = 1 => ps[i].pressing
           /\ \A i, j \in 1..Len(ps) :
                i # j => ((ps[i].z > ps[j].z /\ ps[i].pressing) <=> ps[i].z = 1)

\* C21 witness: the converse fails: a tick has just stepped a room in which
\* a player is pressing without being on top, the other player having taken
\* the top from it.
C21_Witness ==
    /\ emitted # <<>>
    /\ emitted[Len(emitted)].type = "state"
    /\ \E id \in roomIds :
         /\ id = emitted[Len(emitted)].room
         /\ \E i, j \in 1..Len(rooms[id].players) :
              /\ rooms[id].players[i].pressing
              /\ rooms[id].players[i].z = 0
              /\ rooms[id].players[j].z = 1

====
